---- MODULE Spec2Model ----
\* The todo store of src/server.py: one JSON document (next_id, tasks) at
\* DB_PATH, six tool handlers that load it, change it and save it through a
\* temporary file, all under one process-wide lock.
EXTENDS Integers, Sequences, FiniteSets, TLC

\* ---------------------------------------------------------------- bounds
MaxId == 2
MaxClock == 2

\* the callers: two threads of the one server process
Threads == {1, 2}
TaskIds == 1..MaxId

\* ---------------------------------------------------------------- values
\* Text is a sequence of one-character strings; Python's None is a sequence
\* no text can equal.
None == <<"None">>
Digits == <<"0", "1", "2", "3", "4", "5", "6", "7", "8", "9">>

NoError == "none"
ValidationError == "ValidationError"
NotFoundError == "NotFoundError"
TypeError == "TypeError"
OSError == "OSError"

NoHolder == 0

\* str.strip(): drop leading and trailing blanks
RECURSIVE LStrip(_)
LStrip(s) == IF s # <<>> /\ Head(s) = " " THEN LStrip(Tail(s)) ELSE s

RECURSIVE RStrip(_)
RStrip(s) ==
    IF s # <<>> /\ s[Len(s)] = " " THEN RStrip(SubSeq(s, 1, Len(s) - 1)) ELSE s

Strip(s) == RStrip(LStrip(s))

\* datetime.utcnow() at second precision, as text
NowIso(c) == <<"T", Digits[c + 1]>>

\* dict.get(k, default)
Get(d, k, default) == IF k \in DOMAIN d THEN d[k] ELSE default

DefaultDb == [next_id |-> 1, tasks |-> <<>>]

\* ---------------------------------------------------------------- files
\* What a path holds: nothing, text json.load rejects (a truncated write
\* included), a JSON value that is no object, or a JSON object.
Absent == [kind |-> "absent"]
Garbage == [kind |-> "garbage"]
Partial == [kind |-> "partial"]
NonObject == [kind |-> "array"]

\* json.dump of the in-memory document
Dump(db) ==
    [kind |-> "object",
     next_id |-> [int |-> TRUE, v |-> db.next_id],
     tasks |-> [list |-> TRUE, v |-> db.tasks]]

\* _load_db without the "next_id"/"tasks" presence check
LoadDbNoKeyCheck(f) ==
    IF f.kind # "object" THEN DefaultDb
    ELSE [next_id |-> IF "next_id" \in DOMAIN f /\ f.next_id.int /\ f.next_id.v >= 1
                      THEN f.next_id.v ELSE 1,
          tasks |-> IF "tasks" \in DOMAIN f /\ f.tasks.list THEN f.tasks.v ELSE <<>>]

LoadDb(f) ==
    IF f.kind = "absent" THEN DefaultDb
    ELSE IF f.kind \in {"garbage", "partial"} THEN DefaultDb
    ELSE IF f.kind # "object" THEN DefaultDb
    ELSE IF "next_id" \notin DOMAIN f \/ "tasks" \notin DOMAIN f THEN DefaultDb
    ELSE [next_id |-> IF ~f.next_id.int \/ f.next_id.v < 1 THEN 1 ELSE f.next_id.v,
          tasks |-> IF ~f.tasks.list THEN <<>> ELSE f.tasks.v]

\* _save_db, first half: open(tmp_path, "w") and json.dump; a fault leaves a
\* truncated temporary file.  Written in place of the canonical file instead:
SaveWriteInPlace(disk, db, ok) ==
    [disk EXCEPT !.db = IF ok THEN Dump(db) ELSE Partial]

SaveWrite(disk, db, ok) ==
    [disk EXCEPT !.tmp = IF ok THEN Dump(db) ELSE Partial]

\* _save_db, second half: os.replace(tmp_path, DB_PATH)
SaveReplace(disk) == [db |-> disk.tmp, tmp |-> Absent]

\* ---------------------------------------------------------------- tasks
HasId(d) == "id" \in DOMAIN d

\* _task_from_dict that stamps created_at anew whatever the record holds
TaskFromDictRestamped(d, now) ==
    [id |-> d["id"],
     title |-> Get(d, "title", <<>>),
     due_date |-> Get(d, "due_date", None),
     completed |-> Get(d, "completed", FALSE),
     created_at |-> now,
     completed_at |-> Get(d, "completed_at", None)]

TaskFromDict(d, now) ==
    [id |-> d["id"],
     title |-> Get(d, "title", <<>>),
     due_date |-> Get(d, "due_date", None),
     completed |-> Get(d, "completed", FALSE),
     created_at |-> IF Get(d, "created_at", <<>>) = <<>> THEN now
                    ELSE d["created_at"],
     completed_at |-> Get(d, "completed_at", None)]

\* tasks.sort(key=(completed, id)): stable insertion sort
Before(a, b) ==
    \/ (~a.completed /\ b.completed)
    \/ (a.completed = b.completed /\ a.id < b.id)

RECURSIVE Insert(_, _)
Insert(s, x) ==
    IF s = <<>> THEN <<x>>
    ELSE IF Before(x, s[Len(s)]) THEN Append(Insert(SubSeq(s, 1, Len(s) - 1), x), s[Len(s)])
    ELSE Append(s, x)

RECURSIVE SortTasks(_)
SortTasks(s) ==
    IF s = <<>> THEN <<>>
    ELSE Insert(SortTasks(SubSeq(s, 1, Len(s) - 1)), s[Len(s)])

MapTasks(s, now) == [i \in 1..Len(s) |-> TaskFromDict(s[i], now)]

\* the first index the "for i, t in enumerate(db['tasks'])" loop stops at:
\* a record without id (int(None) raises) or the record with the id; 0 if none
FirstHit(tasks, task_id) ==
    LET hits == {i \in 1..Len(tasks) : ~HasId(tasks[i]) \/ tasks[i]["id"] = task_id}
    IN IF hits = {} THEN 0 ELSE CHOOSE i \in hits : \A j \in hits : i <= j

NoResult == [none |-> TRUE]
Outcome(db, save, err, res) == [db |-> db, save |-> save, err |-> err, res |-> res]

\* ---------------------------------------------------------------- handlers
\* Each handler is the part of the tool between _load_db and _save_db: from
\* the loaded document to the document to save, whether _save_db is called,
\* the exception raised and the value returned.

NewTask(task_id, title, due_date, now) ==
    [id |-> task_id,
     title |-> title,
     due_date |-> IF due_date # None /\ Strip(due_date) # <<>>
                  THEN Strip(due_date) ELSE None,
     completed |-> FALSE,
     created_at |-> now,
     completed_at |-> None]

\* add_task that forgets "db['next_id'] += 1"
AddTaskNoIncrement(db, title, due_date, now) ==
    LET task == NewTask(db.next_id, Strip(title), due_date, now)
    IN Outcome([next_id |-> db.next_id, tasks |-> Append(db.tasks, task)],
               TRUE, NoError, [task |-> task])

\* add_task that puts the new task in front: "db['tasks'].insert(0, ...)"
AddTaskInFront(db, title, due_date, now) ==
    LET task == NewTask(db.next_id, Strip(title), due_date, now)
    IN Outcome([next_id |-> db.next_id + 1, tasks |-> <<task>> \o db.tasks],
               TRUE, NoError, [task |-> task])

AddTask(db, title, due_date, now) ==
    LET task == NewTask(db.next_id, Strip(title), due_date, now)
    IN Outcome([next_id |-> db.next_id + 1, tasks |-> Append(db.tasks, task)],
               TRUE, NoError, [task |-> task])

ListTasks(db, is_completed, now) ==
    LET sel == SelectSeq(db.tasks, LAMBDA t : Get(t, "completed", FALSE) = is_completed)
    IN IF \E i \in 1..Len(sel) : ~HasId(sel[i])
       THEN Outcome(db, FALSE, TypeError, NoResult)
       ELSE Outcome(db, FALSE, NoError, [tasks |-> SortTasks(MapTasks(sel, now))])

\* complete_task that stamps the task again when it is already completed
CompleteTaskRestamp(db, task_id, now) ==
    LET i == FirstHit(db.tasks, task_id)
    IN IF i = 0 THEN Outcome(db, FALSE, NotFoundError, NoResult)
       ELSE IF ~HasId(db.tasks[i]) THEN Outcome(db, FALSE, TypeError, NoResult)
       ELSE LET done == [TaskFromDict(db.tasks[i], now) EXCEPT
                           !.completed = TRUE, !.completed_at = now]
            IN Outcome([db EXCEPT !.tasks[i] = done], TRUE, NoError, [task |-> done])

\* complete_task that sets completed and leaves completed_at alone
CompleteTaskNoStamp(db, task_id, now) ==
    LET i == FirstHit(db.tasks, task_id)
    IN IF i = 0 THEN Outcome(db, FALSE, NotFoundError, NoResult)
       ELSE IF ~HasId(db.tasks[i]) THEN Outcome(db, FALSE, TypeError, NoResult)
       ELSE LET task == TaskFromDict(db.tasks[i], now)
            IN IF task.completed THEN Outcome(db, FALSE, NoError, [task |-> task])
               ELSE LET done == [task EXCEPT !.completed = TRUE]
                    IN Outcome([db EXCEPT !.tasks[i] = done], TRUE, NoError,
                               [task |-> done])

\* complete_task that saves on the idempotent path too
CompleteTaskAlwaysSave(db, task_id, now) ==
    LET i == FirstHit(db.tasks, task_id)
    IN IF i = 0 THEN Outcome(db, FALSE, NotFoundError, NoResult)
       ELSE IF ~HasId(db.tasks[i]) THEN Outcome(db, FALSE, TypeError, NoResult)
       ELSE LET task == TaskFromDict(db.tasks[i], now)
            IN IF task.completed THEN Outcome(db, TRUE, NoError, [task |-> task])
               ELSE LET done == [task EXCEPT !.completed = TRUE, !.completed_at = now]
                    IN Outcome([db EXCEPT !.tasks[i] = done], TRUE, NoError,
                               [task |-> done])

CompleteTask(db, task_id, now) ==
    LET i == FirstHit(db.tasks, task_id)
    IN IF i = 0 THEN Outcome(db, FALSE, NotFoundError, NoResult)
       ELSE IF ~HasId(db.tasks[i]) THEN Outcome(db, FALSE, TypeError, NoResult)
       ELSE LET task == TaskFromDict(db.tasks[i], now)
            IN IF task.completed THEN Outcome(db, FALSE, NoError, [task |-> task])
               ELSE LET done == [task EXCEPT !.completed = TRUE, !.completed_at = now]
                    IN Outcome([db EXCEPT !.tasks[i] = done], TRUE, NoError,
                               [task |-> done])

DeleteTask(db, task_id) ==
    IF \E i \in 1..Len(db.tasks) : ~HasId(db.tasks[i])
    THEN Outcome(db, FALSE, TypeError, NoResult)
    ELSE LET rest == SelectSeq(db.tasks, LAMBDA t : t["id"] # task_id)
         IN IF Len(rest) = Len(db.tasks)
            THEN Outcome([db EXCEPT !.tasks = rest], FALSE, NotFoundError, NoResult)
            ELSE Outcome([db EXCEPT !.tasks = rest], TRUE, NoError,
                         [deleted |-> TRUE, task_id |-> task_id])

\* update_task that builds the task anew from its editable fields, so the
\* task it writes is open again
UpdatedReopened(task, title, due_date) ==
    [task EXCEPT
       !.title = IF title # None THEN Strip(title) ELSE @,
       !.due_date = IF due_date = None THEN @
                    ELSE IF Strip(due_date) # <<>> THEN Strip(due_date) ELSE None,
       !.completed = FALSE,
       !.completed_at = None]

\* the task update_task builds from the record it found
Updated(task, title, due_date) ==
    [task EXCEPT
       !.title = IF title # None THEN Strip(title) ELSE @,
       !.due_date = IF due_date = None THEN @
                    ELSE IF Strip(due_date) # <<>> THEN Strip(due_date) ELSE None]

\* update_task that checks the title only after it has saved
UpdateTaskSaveFirst(db, task_id, title, due_date, now) ==
    LET i == FirstHit(db.tasks, task_id)
    IN IF i = 0 THEN Outcome(db, FALSE, NotFoundError, NoResult)
       ELSE IF ~HasId(db.tasks[i]) THEN Outcome(db, FALSE, TypeError, NoResult)
       ELSE LET task == Updated(TaskFromDict(db.tasks[i], now), title, due_date)
            IN IF title # None /\ Strip(title) = <<>>
               THEN Outcome([db EXCEPT !.tasks[i] = task], TRUE, ValidationError, NoResult)
               ELSE Outcome([db EXCEPT !.tasks[i] = task], TRUE, NoError, [task |-> task])

UpdateTask(db, task_id, title, due_date, now) ==
    LET i == FirstHit(db.tasks, task_id)
    IN IF i = 0 THEN Outcome(db, FALSE, NotFoundError, NoResult)
       ELSE IF ~HasId(db.tasks[i]) THEN Outcome(db, FALSE, TypeError, NoResult)
       ELSE IF title # None /\ Strip(title) = <<>>
       THEN Outcome(db, FALSE, ValidationError, NoResult)
       ELSE LET task == Updated(TaskFromDict(db.tasks[i], now), title, due_date)
            IN Outcome([db EXCEPT !.tasks[i] = task], TRUE, NoError, [task |-> task])

\* clear_completed with its test inverted: it keeps the completed tasks
ClearCompletedInverted(db) ==
    LET rest == SelectSeq(db.tasks, LAMBDA t : Get(t, "completed", FALSE))
    IN Outcome([db EXCEPT !.tasks = rest], TRUE, NoError,
               [cleared |-> Len(db.tasks) - Len(rest)])

ClearCompleted(db) ==
    LET rest == SelectSeq(db.tasks, LAMBDA t : ~Get(t, "completed", FALSE))
    IN Outcome([db EXCEPT !.tasks = rest], TRUE, NoError,
               [cleared |-> Len(db.tasks) - Len(rest)])

\* a call: the tool's name and its arguments
CallAdd(title, due_date) == [name |-> "add_task", title |-> title, due_date |-> due_date]
CallList(is_completed) == [name |-> "list_tasks", is_completed |-> is_completed]
CallComplete(task_id) == [name |-> "complete_task", task_id |-> task_id]
CallDelete(task_id) == [name |-> "delete_task", task_id |-> task_id]
CallUpdate(task_id, title, due_date) ==
    [name |-> "update_task", task_id |-> task_id, title |-> title, due_date |-> due_date]
CallClear == [name |-> "clear_completed"]
NoCall == [name |-> "none"]

Handle(c, db, now) ==
    CASE c.name = "add_task" -> AddTask(db, c.title, c.due_date, now)
      [] c.name = "list_tasks" -> ListTasks(db, c.is_completed, now)
      [] c.name = "complete_task" -> CompleteTask(db, c.task_id, now)
      [] c.name = "delete_task" -> DeleteTask(db, c.task_id)
      [] c.name = "update_task" -> UpdateTask(db, c.task_id, c.title, c.due_date, now)
      [] c.name = "clear_completed" -> ClearCompleted(db)

\* ---------------------------------------------------------------- state
VARIABLES
    disk,      \* [db, tmp]: what DB_PATH and DB_PATH + ".tmp" hold
    lock,      \* _lock: the thread inside "with _lock", or NoHolder
    clock,     \* the UTC second _now_iso reads
    pc,        \* per thread: where its invocation stands
    call,      \* per thread: the tool called and its arguments
    out,       \* per thread: the handler's Outcome
    snap,      \* per thread: what DB_PATH held when the invocation loaded it
    now,       \* per thread: the timestamp the invocation read
    issued,    \* the ids add_task calls have succeeded with, in lock order
    serial,    \* the document the committed invocations give one at a time
    doneAt     \* per id: the completed_at complete_task first returned for the task

vars == <<disk, lock, clock, pc, call, out, snap, now, issued, serial, doneAt>>

\* ---------------------------------------------------------------- inputs
\* (title, due_date) arguments of update_task
Changes ==
    {<<None, None>>, <<<<" ">>, <<"d">>>>, <<<<"b", " ">>, None>>,
     <<None, <<" ">>>>, <<None, <<"d", " ">>>>}

\* the calls of the one-caller specification
Calls ==
    {CallAdd(<<" ">>, None), CallAdd(<<" ", "a">>, <<"d", " ">>)}
    \cup {CallList(b) : b \in BOOLEAN}
    \cup {CallComplete(i) : i \in TaskIds}
    \cup {CallDelete(i) : i \in TaskIds}
    \cup {CallUpdate(i, x[1], x[2]) : i \in TaskIds, x \in Changes}
    \cup {CallClear}

\* the calls of the two-caller specification
ConcCalls ==
    {CallAdd(<<" ", "a">>, None), CallList(FALSE), CallComplete(1), CallDelete(1),
     CallClear}

\* records an older or hand-edited file may hold
LegacyTask == [id |-> 1, title |-> <<"a">>]
NoIdTask == [title |-> <<"a">>]
DoneTask ==
    [id |-> 1, title |-> <<"a">>, due_date |-> None, completed |-> TRUE,
     created_at |-> <<"T", "0">>, completed_at |-> <<"T", "0">>]

\* a record as add_task and complete_task write it
FullTask(i, done) ==
    [id |-> i, title |-> <<"a">>, due_date |-> None, completed |-> done,
     created_at |-> <<"T", "0">>,
     completed_at |-> IF done THEN <<"T", "0">> ELSE None]

JsonInt(n) == [int |-> TRUE, v |-> n]
JsonText == [int |-> FALSE, v |-> 0]
JsonList(s) == [list |-> TRUE, v |-> s]
JsonNoList == [list |-> FALSE, v |-> <<>>]

\* files _load_db answers with a fresh document
CorruptFiles ==
    {Absent, Garbage, NonObject,
     [kind |-> "object", tasks |-> JsonList(<<LegacyTask>>)],
     [kind |-> "object", next_id |-> JsonInt(2)]}

\* files _load_db repairs
RepairedFiles ==
    {[kind |-> "object", next_id |-> JsonInt(2), tasks |-> JsonNoList],
     [kind |-> "object", next_id |-> JsonText, tasks |-> JsonList(<<LegacyTask>>)],
     [kind |-> "object", next_id |-> JsonInt(0), tasks |-> JsonList(<<DoneTask>>)]}

\* files _load_db takes as they are
AcceptedFiles ==
    {[kind |-> "object", next_id |-> JsonInt(2), tasks |-> JsonList(<<LegacyTask>>)],
     [kind |-> "object", next_id |-> JsonInt(2), tasks |-> JsonList(<<NoIdTask>>)],
     [kind |-> "object", next_id |-> JsonInt(3),
      tasks |-> JsonList(<<FullTask(2, FALSE), FullTask(1, FALSE)>>)],
     [kind |-> "object", next_id |-> JsonInt(3),
      tasks |-> JsonList(<<NoIdTask, FullTask(2, FALSE)>>)]}

\* files whose document satisfies the data model: every record has an id,
\* the ids ascend and next_id is above them all
ValidFiles ==
    {Absent,
     [kind |-> "object", next_id |-> JsonInt(2), tasks |-> JsonList(<<LegacyTask>>)],
     [kind |-> "object", next_id |-> JsonInt(4),
      tasks |-> JsonList(<<FullTask(1, FALSE), FullTask(2, FALSE), FullTask(3, TRUE)>>)]}

InitFiles == CorruptFiles \cup RepairedFiles \cup AcceptedFiles

\* the files the two-caller specification starts from
ConcFiles ==
    {Absent,
     [kind |-> "object", next_id |-> JsonText, tasks |-> JsonList(<<LegacyTask>>)]}

NotYet == <<"NotYet">>

\* how many records of the sequence carry the id
Count(tasks, i) == Cardinality({k \in 1..Len(tasks) : HasId(tasks[k]) /\ tasks[k]["id"] = i})

Idle == Outcome(DefaultDb, FALSE, NoError, NoResult)

InitFrom(files) ==
    /\ disk \in {[db |-> f, tmp |-> Absent] : f \in files}
    /\ lock = NoHolder
    /\ clock = 1
    /\ pc = [t \in Threads |-> "idle"]
    /\ call = [t \in Threads |-> NoCall]
    /\ out = [t \in Threads |-> Idle]
    /\ snap = [t \in Threads |-> Absent]
    /\ now = [t \in Threads |-> None]
    /\ issued = <<>>
    /\ serial = LoadDb(disk.db)
    /\ doneAt = [i \in TaskIds |-> NotYet]

Init == InitFrom(ConcFiles)

InitSeq == InitFrom(InitFiles)

InitValid == InitFrom(ValidFiles)

InitLive == InitFrom({Absent})

\* ---------------------------------------------------------------- actions
\* "with _lock" may be entered: threading.Lock is free.  Entered regardless:
CanAcquireAlways(l) == TRUE

CanAcquire(l) == l = NoHolder

PendingAdds == Cardinality({u \in Threads : call[u].name = "add_task"})

\* a tool is called; add_task checks its title before it takes the lock
Call(t, c) ==
    /\ pc[t] = "idle"
    /\ c.name = "add_task" =>
         /\ LoadDb(disk.db).next_id + PendingAdds <= MaxId
         /\ Len(LoadDb(disk.db).tasks) + PendingAdds < MaxId
    /\ call' = [call EXCEPT ![t] = c]
    /\ IF c.name = "add_task" /\ Strip(c.title) = <<>>
       THEN /\ pc' = [pc EXCEPT ![t] = "done"]
            /\ out' = [out EXCEPT ![t] = Outcome(DefaultDb, FALSE, ValidationError, NoResult)]
       ELSE /\ pc' = [pc EXCEPT ![t] = "wait"]
            /\ out' = out
    /\ snap' = [snap EXCEPT ![t] = disk.db]
    /\ UNCHANGED <<disk, lock, clock, now, issued, serial, doneAt>>

\* "with _lock:" is entered
Acquire(t) ==
    /\ pc[t] = "wait"
    /\ CanAcquire(lock)
    /\ lock' = t
    /\ pc' = [pc EXCEPT ![t] = "load"]
    /\ UNCHANGED <<disk, clock, call, out, snap, now, issued, serial, doneAt>>

\* _load_db and the handler's work on the loaded document
Load(t) ==
    /\ pc[t] = "load"
    /\ LET o == Handle(call[t], LoadDb(disk.db), NowIso(clock))
       IN /\ out' = [out EXCEPT ![t] = o]
          /\ pc' = [pc EXCEPT ![t] = IF o.save THEN "write" ELSE "unlock"]
    /\ snap' = [snap EXCEPT ![t] = disk.db]
    /\ now' = [now EXCEPT ![t] = NowIso(clock)]
    /\ UNCHANGED <<disk, lock, clock, call, issued, serial, doneAt>>

\* _save_db writes the temporary file, or fails with an I/O error
Write(t, ok) ==
    /\ pc[t] = "write"
    /\ disk' = SaveWrite(disk, out[t].db, ok)
    /\ IF ok
       THEN /\ pc' = [pc EXCEPT ![t] = "replace"]
            /\ out' = out
       ELSE /\ pc' = [pc EXCEPT ![t] = "unlock"]
            /\ out' = [out EXCEPT ![t].err = OSError, ![t].res = NoResult]
    /\ UNCHANGED <<lock, clock, call, snap, now, issued, serial, doneAt>>

\* _save_db replaces the canonical file, or fails with an I/O error
Replace(t, ok) ==
    /\ pc[t] = "replace"
    /\ pc' = [pc EXCEPT ![t] = "unlock"]
    /\ IF ok /\ disk.tmp # Absent
       THEN /\ disk' = SaveReplace(disk)
            /\ out' = out
            /\ serial' = LET o == Handle(call[t], serial, now[t])
                         IN IF o.save THEN o.db ELSE serial
            /\ doneAt' = [i \in TaskIds |->
                            IF Count(LoadDb(disk.tmp).tasks, i) < Count(LoadDb(disk.db).tasks, i)
                            THEN NotYet ELSE doneAt[i]]
       ELSE /\ out' = [out EXCEPT ![t].err = OSError, ![t].res = NoResult]
            /\ UNCHANGED <<disk, serial, doneAt>>
    /\ UNCHANGED <<lock, clock, call, snap, now, issued>>

\* what _lock holds once the "with" block is left.  Released only when the
\* block ends without an exception:
ReleasedOnSuccess(l, err) == IF err = NoError THEN NoHolder ELSE l

Released(l, err) == NoHolder

\* the "with _lock" block is left, by its end or by an exception
Unlock(t) ==
    /\ pc[t] = "unlock"
    /\ lock' = Released(lock, out[t].err)
    /\ pc' = [pc EXCEPT ![t] = "done"]
    /\ doneAt' = IF /\ call[t].name = "complete_task"
                    /\ out[t].err = NoError
                    /\ doneAt[call[t].task_id] = NotYet
                 THEN [doneAt EXCEPT ![call[t].task_id] = out[t].res.task.completed_at]
                 ELSE doneAt
    /\ issued' = IF call[t].name = "add_task" /\ out[t].err = NoError
                 THEN Append(issued, out[t].res.task.id) ELSE issued
    /\ UNCHANGED <<disk, clock, call, out, snap, now, serial>>

\* the tool returns its value or raises
Return(t) ==
    /\ pc[t] = "done"
    /\ pc' = [pc EXCEPT ![t] = "idle"]
    /\ call' = [call EXCEPT ![t] = NoCall]
    /\ out' = [out EXCEPT ![t] = Idle]
    /\ snap' = [snap EXCEPT ![t] = Absent]
    /\ now' = [now EXCEPT ![t] = None]
    /\ UNCHANGED <<disk, lock, clock, issued, serial, doneAt>>

\* a second passes
Tick ==
    /\ clock < MaxClock
    /\ clock' = clock + 1
    /\ UNCHANGED <<disk, lock, pc, call, out, snap, now, issued, serial, doneAt>>

\* the process is killed and started again: the files stay, the rest is lost
Crash ==
    /\ \E t \in Threads : pc[t] # "idle"
    /\ lock' = NoHolder
    /\ pc' = [t \in Threads |-> "idle"]
    /\ call' = [t \in Threads |-> NoCall]
    /\ out' = [t \in Threads |-> Idle]
    /\ snap' = [t \in Threads |-> Absent]
    /\ now' = [t \in Threads |-> None]
    /\ UNCHANGED <<disk, clock, issued, serial, doneAt>>

Next ==
    \/ \E t \in Threads, c \in ConcCalls : Call(t, c)
    \/ \E t \in Threads : Acquire(t)
    \/ \E t \in Threads : Load(t)
    \/ \E t \in Threads, ok \in BOOLEAN : Write(t, ok)
    \/ \E t \in Threads, ok \in BOOLEAN : Replace(t, ok)
    \/ \E t \in Threads : Unlock(t)
    \/ \E t \in Threads : Return(t)
    \/ Tick
    \/ Crash

Spec == Init /\ [][Next]_vars

\* one caller, every call, every file
MainThread == CHOOSE t \in Threads : \A u \in Threads : t <= u

NextSeq ==
    \/ \E c \in Calls : Call(MainThread, c)
    \/ Acquire(MainThread)
    \/ Load(MainThread)
    \/ \E ok \in BOOLEAN : Write(MainThread, ok)
    \/ \E ok \in BOOLEAN : Replace(MainThread, ok)
    \/ Unlock(MainThread)
    \/ Return(MainThread)
    \/ Tick
    \/ Crash

SpecSeq == InitSeq /\ [][NextSeq]_vars

\* one caller, every call, the files that satisfy the data model
SpecValid == InitValid /\ [][NextSeq]_vars

\* two callers that are scheduled fairly, a lock that is granted to every
\* waiter in turn, I/O that ends (in success or in an error), no kill
LiveCalls ==
    {CallAdd(<<" ", "a">>, None), CallDelete(1), CallUpdate(1, <<" ">>, None)}

NextLive ==
    \/ \E t \in Threads, c \in LiveCalls : Call(t, c)
    \/ \E t \in Threads : Acquire(t)
    \/ \E t \in Threads : Load(t)
    \/ \E t \in Threads, ok \in BOOLEAN : Write(t, ok)
    \/ \E t \in Threads, ok \in BOOLEAN : Replace(t, ok)
    \/ \E t \in Threads : Unlock(t)
    \/ \E t \in Threads : Return(t)
    \/ Tick

Fairness ==
    \A t \in Threads :
      /\ SF_vars(Acquire(t))
      /\ WF_vars(Load(t))
      /\ WF_vars(\E ok \in BOOLEAN : Write(t, ok))
      /\ WF_vars(\E ok \in BOOLEAN : Replace(t, ok))
      /\ WF_vars(Unlock(t))
      /\ WF_vars(Return(t))

SpecLive == InitLive /\ [][NextLive]_vars /\ Fairness

\* ---------------------------------------------------------------- properties
InLock(t) == pc[t] \in {"load", "write", "replace", "unlock"}
Loaded(t) == pc[t] \in {"write", "replace", "unlock"}
Ended(t) == pc[t] \in {"unlock", "done"}

\* C1: the ids add_task returns are strictly increasing, so none is returned
\* twice, also across restarts; an add_task returns the next_id it loaded and,
\* when its save succeeds, the file holds that next_id plus one.
C1_IdsIncrease ==
    /\ \A i, j \in 1..Len(issued) : i < j => issued[i] < issued[j]
    /\ \A t \in Threads :
         (call[t].name = "add_task" /\ Loaded(t) /\ out[t].err = NoError) =>
           /\ out[t].res.task.id = LoadDb(snap[t]).next_id
           /\ out[t].db.next_id = LoadDb(snap[t]).next_id + 1
           /\ pc[t] = "unlock" => LoadDb(disk.db).next_id = out[t].res.task.id + 1

C1_Witness == issued = <<1, 2>>

\* C2: at most one invocation is between the start of its load and the end of
\* its save, and it is the one holding the lock.
C2_MutualExclusion ==
    /\ Cardinality({t \in Threads : InLock(t)}) <= 1
    /\ \A t \in Threads : InLock(t) => lock = t

C2_Witness ==
    \E t, u \in Threads : pc[t] = "replace" /\ pc[u] = "wait"

\* C3: the persisted document is always the one the committed invocations give
\* when applied one at a time, in the order of their commits.
C3_NoLostUpdate == LoadDb(disk.db) = serial

C3_Witness ==
    \E t, u \in Threads :
      /\ t # u
      /\ pc[t] = "unlock" /\ pc[u] = "done"
      /\ call[t].name = "add_task" /\ call[u].name = "add_task"
      /\ out[t].err = NoError /\ out[u].err = NoError
      /\ out[t].res.task.id # out[u].res.task.id
      /\ disk.db = Dump(out[t].db)
      /\ Len(serial.tasks) = 2 /\ serial.next_id = 3

\* C4: the canonical file is never truncated and changes only in a replace
\* that succeeds, to exactly the document being saved; a fault or a crash
\* during a save leaves it as it was; what an invocation works on is what the
\* canonical file held, whatever the temporary file holds.
C4_Step ==
    /\ disk'.db # Partial
    /\ disk'.db # disk.db =>
         \E t \in Threads : pc[t] = "replace" /\ pc'[t] = "unlock"
                            /\ out'[t].err # OSError
    /\ \A t \in Threads :
         /\ (pc[t] = "replace" /\ pc'[t] = "unlock" /\ out'[t].err # OSError) =>
              disk'.db = Dump(out[t].db)
         /\ (pc[t] \in {"write", "replace"}
               /\ (pc'[t] = "idle" \/ out'[t].err = OSError)) => disk'.db = disk.db
         /\ (pc[t] = "load" /\ pc'[t] \in {"write", "unlock"}) =>
              out'[t] = Handle(call[t], LoadDb(disk.db), NowIso(clock))

C4_AtomicSave == [][C4_Step]_vars

C4_Witness ==
    \E t \in Threads :
      /\ pc[t] = "unlock" /\ call[t].name = "list_tasks" /\ out[t].err = NoError
      /\ disk.tmp.kind = "object" /\ LoadDb(disk.tmp) # LoadDb(disk.db)
      /\ Len(out[t].res.tasks) = 1

\* C5: when an invocation ends in an error the canonical file is what it was
\* when the invocation began.
C5_FailedKeepsFile ==
    \A t \in Threads : (Ended(t) /\ out[t].err # NoError) => disk.db = snap[t]

C5_Witness ==
    \E t \in Threads :
      /\ pc[t] = "unlock" /\ out[t].err = OSError /\ call[t].name = "update_task"
      /\ disk.tmp = Dump(out[t].db)

\* C6: complete_task on a task an earlier complete_task has answered for
\* succeeds with the same completed_at, saves nothing and leaves the file alone.
C6_IdempotentComplete ==
    \A t \in Threads :
      (pc[t] = "unlock" /\ call[t].name = "complete_task"
         /\ doneAt[call[t].task_id] # NotYet) =>
        /\ out[t].err = NoError
        /\ out[t].res.task.completed_at = doneAt[call[t].task_id]
        /\ ~out[t].save
        /\ disk.db = snap[t]

C6_Witness ==
    \E t \in Threads :
      /\ pc[t] = "unlock" /\ call[t].name = "complete_task"
      /\ doneAt[call[t].task_id] # NotYet
      /\ out[t].res.task.completed_at # now[t]

\* C7: in the persisted document and in every returned task, completed_at is
\* set exactly when completed is true.
Stamped(d) == Get(d, "completed", FALSE) <=> (Get(d, "completed_at", None) # None)

Returned(t) ==
    IF "task" \in DOMAIN out[t].res THEN <<out[t].res.task>>
    ELSE IF "tasks" \in DOMAIN out[t].res THEN out[t].res.tasks
    ELSE <<>>

C7_CompletedAtIffCompleted ==
    /\ \A k \in 1..Len(LoadDb(disk.db).tasks) : Stamped(LoadDb(disk.db).tasks[k])
    /\ \A t \in Threads : \A k \in 1..Len(Returned(t)) : Stamped(Returned(t)[k])

C7_Witness ==
    \E t \in Threads :
      /\ pc[t] = "unlock" /\ call[t].name = "complete_task" /\ out[t].save
      /\ out[t].err = NoError
      /\ "completed" \notin DOMAIN LoadDb(snap[t]).tasks[1]
      /\ out[t].res.task.completed /\ out[t].res.task.completed_at = now[t]
      /\ disk.db = Dump(out[t].db)

\* C8: after an invocation has saved, no two tasks of the document carry the
\* same id and next_id is above every id, whatever file the store began with.
UniqueIds(db) ==
    /\ \A i, j \in 1..Len(db.tasks) :
         (i # j /\ HasId(db.tasks[i]) /\ HasId(db.tasks[j])) =>
           db.tasks[i]["id"] # db.tasks[j]["id"]
    /\ \A i \in 1..Len(db.tasks) : HasId(db.tasks[i]) => db.tasks[i]["id"] < db.next_id

C8_UniqueIdsFromAnyFile ==
    \A t \in Threads :
      (pc[t] = "unlock" /\ out[t].save /\ out[t].err = NoError) =>
        UniqueIds(LoadDb(disk.db))

\* C9: over a file that is absent, unparsable, no object or lacks next_id or
\* tasks, list_tasks returns the empty sequence and add_task returns id 1 and
\* saves a document with next_id 2 holding that task alone.
IsCorrupt(f) ==
    f.kind # "object" \/ "next_id" \notin DOMAIN f \/ "tasks" \notin DOMAIN f

C9_CorruptionTolerance ==
    \A t \in Threads :
      (Loaded(t) /\ IsCorrupt(snap[t])) =>
        /\ call[t].name = "list_tasks" =>
             out[t].err = NoError /\ out[t].res.tasks = <<>>
        /\ call[t].name = "add_task" =>
             /\ out[t].save
             /\ out[t].db.next_id = 2 /\ Len(out[t].db.tasks) = 1
             /\ out[t].db.tasks[1]["id"] = 1
             /\ (pc[t] = "unlock" /\ out[t].err = NoError) =>
                  /\ out[t].res.task.id = 1
                  /\ disk.db = Dump(out[t].db)

C9_Witness ==
    \E t \in Threads :
      /\ pc[t] = "unlock" /\ call[t].name = "add_task" /\ out[t].err = NoError
      /\ snap[t] = [kind |-> "object", tasks |-> JsonList(<<LegacyTask>>)]
      /\ LoadDb(disk.db).next_id = 2

\* C10: no tool fails because of what the file holds: an invocation ends with
\* a result, a ValidationError, a NotFoundError or the I/O error of its save.
C10_NoErrorFromFile ==
    \A t \in Threads :
      out[t].err \in {NoError, ValidationError, NotFoundError, OSError}

\* the document at DB_PATH, and the one an invocation loaded
Doc == LoadDb(disk.db)
Old(t) == LoadDb(snap[t])

\* the sequence without its i-th element
Without(s, i) == SubSeq(s, 1, i - 1) \o SubSeq(s, i + 1, Len(s))

\* C11: a successful delete_task removes exactly one task, the one with the
\* id, and leaves the others and next_id as they were; on an id no task has
\* it fails with NotFoundError, saving nothing; the deleted id is below
\* next_id, and an id below next_id that no task has is never in the document
\* again, so no later list_tasks (which returns tasks of the document only)
\* returns it, whatever is added later.
C11_AtUnlock ==
    \A t \in Threads :
      (pc[t] = "unlock" /\ call[t].name = "delete_task") =>
        /\ Count(Old(t).tasks, call[t].task_id) = 0 =>
             /\ out[t].err = NotFoundError
             /\ ~out[t].save
             /\ disk.db = snap[t]
        /\ out[t].err = NotFoundError => Count(Old(t).tasks, call[t].task_id) = 0
        /\ out[t].err = NoError =>
             /\ Len(Doc.tasks) = Len(Old(t).tasks) - 1
             /\ Doc.next_id = Old(t).next_id
             /\ \E i \in 1..Len(Old(t).tasks) :
                  /\ Old(t).tasks[i]["id"] = call[t].task_id
                  /\ Doc.tasks = Without(Old(t).tasks, i)
             /\ Count(Doc.tasks, call[t].task_id) = 0
             /\ call[t].task_id < Doc.next_id
             /\ out[t].res = [deleted |-> TRUE, task_id |-> call[t].task_id]

C11_Listed ==
    \A t \in Threads :
      (pc[t] = "unlock" /\ call[t].name = "list_tasks" /\ out[t].err = NoError) =>
        \A k \in 1..Len(out[t].res.tasks) : Count(Doc.tasks, out[t].res.tasks[k].id) > 0

C11_Step ==
    /\ Doc'.next_id >= Doc.next_id
    /\ \A i \in 1..(Doc.next_id - 1) :
         Count(Doc.tasks, i) = 0 => Count(Doc'.tasks, i) = 0

C11_DeletionCorrect == [](C11_AtUnlock /\ C11_Listed) /\ [][C11_Step]_vars

IsDone(d) == Get(d, "completed", FALSE)

\* the records of the sequence that are not completed, in their order
RECURSIVE OpenOnes(_)
OpenOnes(s) ==
    IF s = <<>> THEN <<>>
    ELSE IF IsDone(Head(s)) THEN OpenOnes(Tail(s))
    ELSE <<Head(s)>> \o OpenOnes(Tail(s))

\* C12: clear_completed drops exactly the completed tasks, returns how many
\* they were, keeps the others as they were and in their order, and right
\* after it list_tasks(true) is empty and list_tasks(false) is what it was.
C12_ClearCompleted ==
    \A t \in Threads :
      (Loaded(t) /\ call[t].name = "clear_completed") =>
        /\ out[t].save
        /\ out[t].db.tasks = OpenOnes(Old(t).tasks)
        /\ out[t].db.next_id = Old(t).next_id
        /\ out[t].err = NoError =>
             out[t].res.cleared =
               Cardinality({k \in 1..Len(Old(t).tasks) : IsDone(Old(t).tasks[k])})
        /\ (pc[t] = "unlock" /\ out[t].err = NoError) =>
             /\ Doc = out[t].db
             /\ \A k \in 1..Len(Doc.tasks) : ~IsDone(Doc.tasks[k])
             /\ ListTasks(Doc, TRUE, now[t]).res = [tasks |-> <<>>]
             /\ ListTasks(Doc, FALSE, now[t]).res = ListTasks(Old(t), FALSE, now[t]).res

C12_Witness ==
    \E t \in Threads :
      /\ pc[t] = "unlock" /\ call[t].name = "clear_completed" /\ out[t].err = NoError
      /\ out[t].res.cleared = 2
      /\ Len(Old(t).tasks) = 3
      /\ Len(Doc.tasks) = 1 /\ Doc.tasks[1]["id"] = 2

\* the records of the sequence whose completed flag (false when missing) is b
Flagged(s, b) == SelectSeq(s, LAMBDA d : IsDone(d) = b)

\* how many elements of the sequence equal x
Times(s, x) == Cardinality({k \in 1..Len(s) : s[k] = x})

\* the two sequences hold the same elements, each as many times
SameElements(a, b) ==
    /\ Len(a) = Len(b)
    /\ \A k \in 1..Len(a) : Times(a, a[k]) = Times(b, a[k])

\* C13: list_tasks(is_completed) returns exactly the tasks of the document
\* whose completed flag equals is_completed, each once, in ascending id
\* order, so the two lists together are the whole task sequence; it saves
\* nothing and leaves the file as it was.
C13_ListTasks ==
    \A t \in Threads :
      (Loaded(t) /\ call[t].name = "list_tasks") =>
        LET want == Flagged(Old(t).tasks, call[t].is_completed)
            other == ListTasks(Old(t), ~call[t].is_completed, now[t])
        IN /\ out[t].err = NoError
           /\ ~out[t].save
           /\ disk.db = snap[t]
           /\ \A k \in 1..Len(want) : HasId(want[k])
           /\ SameElements(out[t].res.tasks, MapTasks(want, now[t]))
           /\ \A k \in 1..(Len(out[t].res.tasks) - 1) :
                out[t].res.tasks[k].id < out[t].res.tasks[k + 1].id
           /\ other.err = NoError
           /\ Len(out[t].res.tasks) + Len(other.res.tasks) = Len(Old(t).tasks)

\* C14 as claimed: whatever the operation, a save is performed only when
\* the document to be saved differs from the document that was loaded.
C14_SaveOnlyIfChanged ==
    \A t \in Threads :
      (Loaded(t) /\ out[t].save) => out[t].db # Old(t)

\* C14 as amended: add_task, list_tasks, complete_task and delete_task save
\* only a document that differs from the loaded one; update_task saves
\* whenever it finds the task and the title it is given is not empty after
\* trim, and clear_completed saves always, changed or not; a document that
\* is not saved equals the loaded one.
C14_SaveWhenChangedOrAlways ==
    \A t \in Threads :
      Loaded(t) =>
        /\ (out[t].save /\ call[t].name \notin {"update_task", "clear_completed"}) =>
             out[t].db # Old(t)
        /\ call[t].name = "clear_completed" => out[t].save
        /\ (call[t].name = "update_task" /\ ~out[t].save) =>
             out[t].err \in {NotFoundError, ValidationError, TypeError}
        /\ ~out[t].save => out[t].db = Old(t)

C14_Witness ==
    \E t \in Threads :
      /\ pc[t] = "unlock" /\ out[t].err = NoError /\ out[t].save
      /\ call[t] = CallUpdate(1, None, None)
      /\ out[t].db = Old(t)
      /\ disk.db = Dump(out[t].db)

\* the elements of the sequence at the positions in S, in their order
RECURSIVE Pick(_, _)
Pick(s, S) ==
    IF s = <<>> THEN <<>>
    ELSE Pick(SubSeq(s, 1, Len(s) - 1), S)
           \o (IF Len(s) \in S THEN <<s[Len(s)]>> ELSE <<>>)

StampOf(d) == Get(d, "completed_at", None)

\* the invocation whose os.replace this step is
Committing(t) == pc[t] = "replace" /\ pc'[t] = "unlock"

\* C15: the task sequence of the file changes only in the save of an
\* invocation, and then: add_task appends an open task and keeps the others;
\* complete_task turns exactly one open task into a completed one with a
\* timestamp and keeps the others; update_task keeps completed and
\* completed_at of every task; delete_task and clear_completed only remove
\* tasks. So a completed task is never open again and keeps its completed_at
\* until it is removed, and completed changes in complete_task only.
C15_Step ==
    Doc'.tasks # Doc.tasks =>
      \E t \in Threads :
        /\ Committing(t)
        /\ LET op == call[t].name
               old == Doc.tasks
               new == Doc'.tasks
           IN /\ op # "list_tasks"
              /\ op = "add_task" =>
                   /\ Len(new) = Len(old) + 1
                   /\ SubSeq(new, 1, Len(old)) = old
                   /\ ~IsDone(new[Len(new)])
                   /\ StampOf(new[Len(new)]) = None
              /\ op = "complete_task" =>
                   /\ Len(new) = Len(old)
                   /\ \E k \in 1..Len(old) :
                        /\ ~IsDone(old[k]) /\ IsDone(new[k])
                        /\ StampOf(new[k]) # None
                        /\ new[k]["id"] = call[t].task_id
                        /\ \A j \in 1..Len(old) : j # k => new[j] = old[j]
              /\ op = "update_task" =>
                   /\ Len(new) = Len(old)
                   /\ \A k \in 1..Len(old) :
                        /\ IsDone(new[k]) = IsDone(old[k])
                        /\ StampOf(new[k]) = StampOf(old[k])
              /\ op \in {"delete_task", "clear_completed"} =>
                   \E S \in SUBSET (1..Len(old)) :
                     /\ S # 1..Len(old)
                     /\ new = Pick(old, S)

C15_TaskStateMachine == [][C15_Step]_vars

C15_Witness ==
    \E t \in Threads :
      /\ pc[t] = "unlock" /\ call[t].name = "update_task"
      /\ out[t].err = NoError /\ Doc = out[t].db
      /\ \E k \in 1..Len(Doc.tasks) :
           /\ Doc.tasks[k]["id"] = call[t].task_id
           /\ IsDone(Old(t).tasks[k]) /\ IsDone(Doc.tasks[k])
           /\ StampOf(Doc.tasks[k]) = <<"T", "1">>
           /\ Doc.tasks[k]["title"] = <<"b">>
           /\ Get(Old(t).tasks[k], "title", <<>>) = <<"a">>

\* the title given to update_task is empty after trim
EmptyTitle(c) == c.title # None /\ Strip(c.title) = <<>>

\* C16: update_task fails with NotFoundError when no task has task_id and
\* with ValidationError when the title it is given is empty after trim; when
\* both hold it fails with one of the two; in each of these cases nothing is
\* saved and the file stays as it was.
C16_UpdateErrors ==
    \A t \in Threads :
      (Loaded(t) /\ call[t].name = "update_task") =>
        LET none == Count(Old(t).tasks, call[t].task_id) = 0
            empty == EmptyTitle(call[t])
        IN /\ (none /\ ~empty) => out[t].err = NotFoundError
           /\ (empty /\ ~none) => out[t].err = ValidationError
           /\ (none /\ empty) => out[t].err \in {NotFoundError, ValidationError}
           /\ (none \/ empty) => (~out[t].save /\ disk.db = snap[t])
           /\ out[t].err \in {NotFoundError, ValidationError} => (none \/ empty)

\* the first position of the sequence whose record carries the id, 0 if none
PlaceOf(tasks, i) ==
    LET at == {k \in 1..Len(tasks) : HasId(tasks[k]) /\ tasks[k]["id"] = i}
    IN IF at = {} THEN 0 ELSE CHOOSE k \in at : \A j \in at : k <= j

\* C17: update_task on an existing task, given no title or one that is not
\* empty after trim, succeeds (unless its save fails) and writes that task
\* with: the title as it was when none is given, else the trimmed title; the
\* due_date as it was when none is given, the trimmed due_date when that is
\* not empty, and none when it is empty; every other task and next_id as
\* they were; it returns the task it wrote.
C17_UpdateFields ==
    \A t \in Threads :
      (/\ Loaded(t) /\ call[t].name = "update_task"
       /\ Count(Old(t).tasks, call[t].task_id) > 0
       /\ ~EmptyTitle(call[t])) =>
        LET k == PlaceOf(Old(t).tasks, call[t].task_id)
            old == Old(t).tasks[k]
            new == out[t].db.tasks[k]
            title == call[t].title
            due == call[t].due_date
        IN /\ out[t].err \in {NoError, OSError}
           /\ out[t].save
           /\ new["id"] = call[t].task_id
           /\ new["title"] = IF title = None THEN Get(old, "title", <<>>) ELSE Strip(title)
           /\ new["due_date"] = IF due = None THEN Get(old, "due_date", None)
                                ELSE IF Strip(due) = <<>> THEN None ELSE Strip(due)
           /\ Len(out[t].db.tasks) = Len(Old(t).tasks)
           /\ \A j \in 1..Len(Old(t).tasks) : j # k => out[t].db.tasks[j] = Old(t).tasks[j]
           /\ out[t].db.next_id = Old(t).next_id
           /\ out[t].err = NoError => out[t].res = [task |-> new]
           /\ (pc[t] = "unlock" /\ out[t].err = NoError) => Doc = out[t].db

\* the record carries a created_at, as every record add_task writes does
HasCreatedAt(d) == Get(d, "created_at", <<>>) # <<>>

\* the record and the returned task agree on id and created_at
SameIdentity(d, task) ==
    /\ HasId(d) /\ d["id"] = task.id
    /\ HasCreatedAt(d) => d["created_at"] = task.created_at

\* C18: the record add_task persists is the task it returns, with the id
\* and the created_at of that call; a save of complete_task or update_task
\* keeps the id of every record and the created_at of every record that has
\* one; the task complete_task or update_task returns has the id and the
\* created_at of the record it found, and every task list_tasks returns has
\* those of a record of the document.
C18_Returned ==
    \A t \in Threads :
      (Loaded(t) /\ out[t].err = NoError) =>
        /\ call[t].name = "add_task" =>
             /\ out[t].db.tasks[Len(out[t].db.tasks)] = out[t].res.task
             /\ out[t].res.task.created_at = now[t]
        /\ call[t].name \in {"complete_task", "update_task"} =>
             LET k == PlaceOf(Old(t).tasks, call[t].task_id)
             IN /\ k > 0
                /\ SameIdentity(Old(t).tasks[k], out[t].res.task)
                /\ SameIdentity(out[t].db.tasks[k], out[t].res.task)
        /\ call[t].name = "list_tasks" =>
             \A j \in 1..Len(out[t].res.tasks) :
               \E k \in 1..Len(Old(t).tasks) :
                 SameIdentity(Old(t).tasks[k], out[t].res.tasks[j])

C18_Step ==
    \A t \in Threads :
      (Committing(t) /\ call[t].name \in {"complete_task", "update_task"}) =>
        /\ Len(Doc'.tasks) = Len(Doc.tasks)
        /\ \A k \in 1..Len(Doc.tasks) :
             /\ HasId(Doc.tasks[k]) =>
                  (HasId(Doc'.tasks[k]) /\ Doc'.tasks[k]["id"] = Doc.tasks[k]["id"])
             /\ HasCreatedAt(Doc.tasks[k]) =>
                  Get(Doc'.tasks[k], "created_at", <<>>) = Doc.tasks[k]["created_at"]

C18_IdAndCreatedAtImmutable == []C18_Returned /\ [][C18_Step]_vars

C18_Witness ==
    \E t \in Threads :
      /\ pc[t] = "unlock" /\ call[t].name = "complete_task" /\ out[t].err = NoError
      /\ Doc = out[t].db
      /\ issued # <<>>
      /\ out[t].res.task.completed_at = <<"T", "2">>
      /\ out[t].res.task.created_at = <<"T", "1">>

\* the ids of the sequence ascend strictly
Ascending(tasks) ==
    \A k \in 1..(Len(tasks) - 1) :
      /\ HasId(tasks[k]) /\ HasId(tasks[k + 1])
      /\ tasks[k]["id"] < tasks[k + 1]["id"]

\* C19: from an empty store (and from a store whose tasks are in creation
\* order) the persisted tasks are in strictly ascending id order after any
\* sequence of operations, and so is every document an operation is about
\* to save.
C19_CreationOrder ==
    /\ Ascending(Doc.tasks)
    /\ \A t \in Threads : Loaded(t) => Ascending(out[t].db.tasks)

C19_Witness ==
    /\ issued = <<1, 2>>
    /\ Len(Doc.tasks) = 2
    /\ Doc.tasks[1]["id"] = 1 /\ IsDone(Doc.tasks[1])
    /\ Doc.tasks[2]["id"] = 2 /\ Doc.tasks[2]["title"] = <<"b">>

\* C20: the lock is held only by an invocation inside its with-block, so an
\* invocation that has ended, failed or not, does not hold it and the lock
\* is free when no invocation is running; with fair scheduling and save
\* steps that end, every invocation waiting for the lock ends.
C20_HeldInsideOnly ==
    /\ \A t \in Threads : lock = t => InLock(t)
    /\ lock \in Threads \cup {NoHolder}
    /\ (\A t \in Threads : pc[t] \in {"idle", "done"}) => lock = NoHolder

C20_LockReleased ==
    /\ []C20_HeldInsideOnly
    /\ \A t \in Threads : (pc[t] = "wait") ~> (pc[t] = "done")

C20_Witness ==
    \E t, u \in Threads :
      /\ t # u
      /\ pc[t] = "done" /\ call[t].name = "update_task"
      /\ out[t].err = ValidationError
      /\ lock = u /\ pc[u] = "load"

====
